---------------------------- MODULE Spec2Model ----------------------------
(***************************************************************************)
(* A model of the fyyur booking directory (src/app.py): the three tables   *)
(* Venue, Artist and Show, and one action per route handler.  Every        *)
(* request is handled to completion before the next one, so a handler is   *)
(* one atomic action; `resp' records the request just handled and the      *)
(* response it produced.                                                   *)
(***************************************************************************)
EXTENDS Integers, Sequences, FiniteSets, TLC

VARIABLES venues, artists, shows, nextVenueId, nextArtistId, nextShowId, resp

vars == <<venues, artists, shows, nextVenueId, nextArtistId, nextShowId, resp>>
db == <<venues, artists, shows, nextVenueId, nextArtistId, nextShowId>>

(***************************************************************************)
(* Bounds of the model.                                                    *)
(***************************************************************************)
\* Rows ever created, over the three tables.
MaxRows == 4
\* The largest start_time a show form carries.
MaxTime == 1
\* The longest search term (specification SearchSpec).
MaxTermLen == 2
\* Rows per table in the initial states of SearchSpec.
MaxSearchRows == 1

(***************************************************************************)
(* Input domains.  A name is a sequence of characters so that the search   *)
(* pattern match can be computed; the empty sequence is a missing field.   *)
(***************************************************************************)
Alphabet == {"A", "a", "b", "_", "%"}
Methods == {"GET", "POST"}
Times == 1..MaxTime
Nows == 1..(MaxTime + 1)
NoName == <<>>
NoCity == ""
NoId == 0
NoTime == 0

\* Submitted venue / artist forms: two valid ones that differ in every field,
\* and one whose required name is missing.
EntityForms ==
    {[name |-> <<"A", "b">>, city |-> "SF"], [name |-> <<"b">>, city |-> "NY"],
     [name |-> NoName, city |-> "SF"]}
EmptyEntityForm == [name |-> NoName, city |-> NoCity]
EmptyShowForm == [venue_id |-> NoId, artist_id |-> NoId, start_time |-> NoTime]

(***************************************************************************)
(* Form layer.                                                             *)
(***************************************************************************)
\* The required fields of VenueForm / ArtistForm.
ValidateEntity(form) == form.name # NoName /\ form.city # NoCity

\* The required fields of ShowForm.
ValidateShow(form) ==
    form.venue_id # NoId /\ form.artist_id # NoId /\ form.start_time # NoTime

submitted_only(method, valid) == method = "POST"

\* form.validate_on_submit(): true only for a POST request whose form is valid.
validate_on_submit(method, valid) == method = "POST" /\ valid

populate_obj_name_only(form) == [name |-> form.name, city |-> NoCity]

\* form.populate_obj(obj): every form field is copied onto the row.
populate_obj(form) == [name |-> form.name, city |-> form.city]

\* form.populate_obj(show) for a ShowForm.
populate_show(form) ==
    [venue_id |-> form.venue_id, artist_id |-> form.artist_id,
     start_time |-> form.start_time]

(***************************************************************************)
(* Persistence layer: what session.add / session.delete and a successful   *)
(* commit do to a table, and when the commit raises.                       *)
(***************************************************************************)
\* session.add(new row); commit(): the row is stored under the next id.
InsertRow(rows, id, row) ==
    [i \in DOMAIN rows \cup {id} |-> IF i = id THEN row ELSE rows[i]]

UpdateAllRows(rows, id, row) == [i \in DOMAIN rows |-> row]

\* session.add(loaded row); commit(): the row of that id is overwritten.
UpdateRow(rows, id, row) ==
    [i \in DOMAIN rows |-> IF i = id THEN row ELSE rows[i]]

DeleteNothing(rows, id) == rows

\* session.delete(row); commit(): the row of that id is removed.
DeleteRow(rows, id) == [i \in DOMAIN rows \ {id} |-> rows[i]]

\* The foreign keys of Show: both ids must reference stored rows.
ForeignKeysOk(show, vs, as) ==
    show.venue_id \in DOMAIN vs /\ show.artist_id \in DOMAIN as

UnrestrictedDelete(column, id, ss) == TRUE

\* The engine's default foreign-key behaviour on delete: a referenced row
\* cannot be deleted.
NotReferenced(column, id, ss) ==
    \A s \in DOMAIN ss :
        IF column = "venue_id" THEN ss[s].venue_id # id ELSE ss[s].artist_id # id

\* commit() raises SQLAlchemyError when the engine fails (dbError) or when a
\* constraint is violated.
CommitRaises(dbError, constraintsOk) == dbError \/ ~constraintsOk

(***************************************************************************)
(* Responses.                                                              *)
(***************************************************************************)
NoFlash == [level |-> "none", entity |-> "", name |-> NoName, verb |-> ""]
Flash(level, entity, name, verb) ==
    [level |-> level, entity |-> entity, name |-> name, verb |-> verb]

NoData == [count |-> 0, rows |-> {}, past |-> {}, upcoming |-> {},
           past_count |-> 0, upcoming_count |-> 0, now |-> 0, now2 |-> 0]

\* The request just handled and its response.  path: "none" before any
\* request, else the exit path of the handler.
Response(handler, method, id, form, path, status, kind, target, targetId, flash, closed, data) ==
    [handler |-> handler, method |-> method, id |-> id, form |-> form,
     path |-> path, status |-> status, kind |-> kind, target |-> target,
     targetId |-> targetId, flash |-> flash, closed |-> closed, data |-> data]

NoResponse ==
    Response("none", "GET", NoId, EmptyEntityForm, "none", 0, "none", "", NoId,
             NoFlash, FALSE, NoData)

\* get_or_404 on a missing id: the 404 error page.
NotFound(handler, method, id) ==
    Response(handler, method, id, EmptyEntityForm, "not_found", 404, "render",
             "errors/404.html", NoId, NoFlash, FALSE, NoData)

\* Rows created so far: the ids are serial and never reused.
RowsCreated == (nextVenueId - 1) + (nextArtistId - 1) + (nextShowId - 1)

\* The ids a request may name: every id given out so far and one never used.
VenueIds == 1..nextVenueId
ArtistIds == 1..nextArtistId

\* Submitted show forms; NoId and NoTime are missing required fields.
ShowForms ==
    [venue_id : VenueIds \cup {NoId}, artist_id : ArtistIds \cup {NoId},
     start_time : Times \cup {NoTime}]

Init ==
    /\ venues = <<>>
    /\ artists = <<>>
    /\ shows = <<>>
    /\ nextVenueId = 1
    /\ nextArtistId = 1
    /\ nextShowId = 1
    /\ resp = NoResponse

(***************************************************************************)
(* Venues.                                                                 *)
(***************************************************************************)
\* GET /venues: one group per distinct city, holding the venues of that city.
venues_list ==
    LET areas == {venues[v].city : v \in DOMAIN venues}
        listed == UNION {{v \in DOMAIN venues : venues[v].city = c} : c \in areas}
    IN  /\ resp' = Response("venues", "GET", NoId, EmptyEntityForm, "read", 200,
                            "render", "pages/venues.html", NoId, NoFlash, FALSE,
                            [NoData EXCEPT !.rows = listed,
                                           !.count = Cardinality(areas)])
        /\ UNCHANGED db

\* The shows the venue page's two queries select: Show joined with Artist
\* and Venue, filtered on the venue id and on start_time against the clock.
VenuePastShows(venue_id, now) ==
    {s \in DOMAIN shows :
        /\ shows[s].artist_id \in DOMAIN artists
        /\ shows[s].venue_id \in DOMAIN venues
        /\ shows[s].venue_id = venue_id
        /\ shows[s].start_time < now}

VenueUpcomingShows(venue_id, now) ==
    {s \in DOMAIN shows :
        /\ shows[s].artist_id \in DOMAIN artists
        /\ shows[s].venue_id \in DOMAIN venues
        /\ shows[s].venue_id = venue_id
        /\ shows[s].start_time >= now}

\* GET /venues/<id>.  datetime.now() is read once per query: now2 is the
\* second reading, which is not before the first.
show_venue(venue_id, now1, now2) ==
    /\ now1 <= now2
    /\ UNCHANGED db
    /\ IF venue_id \notin DOMAIN venues
       THEN resp' = NotFound("show_venue", "GET", venue_id)
       ELSE LET past == VenuePastShows(venue_id, now1)
                upcoming == VenueUpcomingShows(venue_id, now2)
            IN  resp' = Response("show_venue", "GET", venue_id, EmptyEntityForm,
                                 "read", 200, "render", "pages/show_venue.html",
                                 venue_id, NoFlash, FALSE,
                                 [NoData EXCEPT !.past = past,
                                                !.past_count = Cardinality(past),
                                                !.upcoming = upcoming,
                                                !.upcoming_count = Cardinality(upcoming),
                                                !.now = now1,
                                                !.now2 = now2])

\* The except branch of create_venue.
CreateVenueFailed(method, form) ==
    Response("create_venue", method, NoId, form, "commit_failed", 200, "render",
             "forms/new_venue.html", NoId,
             Flash("failure", "Venue", form.name, "listed"), TRUE, NoData)

\* GET/POST /venues/create.
create_venue(method, form, dbError) ==
    /\ RowsCreated < MaxRows
    /\ IF validate_on_submit(method, ValidateEntity(form))
       THEN LET venue == populate_obj(form)
            IN  IF CommitRaises(dbError, TRUE)
                THEN /\ resp' = CreateVenueFailed(method, form)
                     /\ UNCHANGED db
                ELSE /\ venues' = InsertRow(venues, nextVenueId, venue)
                     /\ nextVenueId' = nextVenueId + 1
                     /\ resp' = Response("create_venue", method, NoId, form,
                                         "committed", 302, "redirect", "show_venue",
                                         nextVenueId,
                                         Flash("success", "Venue", venue.name, "listed"),
                                         FALSE, NoData)
                     /\ UNCHANGED <<artists, shows, nextArtistId, nextShowId>>
       ELSE /\ resp' = Response("create_venue", method, NoId, form, "form", 200,
                                "render", "forms/new_venue.html", NoId, NoFlash,
                                FALSE, NoData)
            /\ UNCHANGED db

\* The except branch of edit_venue.
EditVenueFailed(method, venue_id, form, venue_name) ==
    Response("edit_venue", method, venue_id, form, "commit_failed", 200, "render",
             "forms/edit_venue.html", venue_id,
             Flash("failure", "Venue", venue_name, "edited"), TRUE, NoData)

\* GET/POST /venues/<id>/edit.
edit_venue(venue_id, method, form, dbError) ==
    IF venue_id \notin DOMAIN venues
    THEN /\ resp' = NotFound("edit_venue", method, venue_id)
         /\ UNCHANGED db
    ELSE LET venue_name == venues[venue_id].name
         IN  IF validate_on_submit(method, ValidateEntity(form))
             THEN LET venue == populate_obj(form)
                  IN  IF CommitRaises(dbError, TRUE)
                      THEN /\ resp' = EditVenueFailed(method, venue_id, form, venue_name)
                           /\ UNCHANGED db
                      ELSE /\ venues' = UpdateRow(venues, venue_id, venue)
                           /\ resp' = Response("edit_venue", method, venue_id, form,
                                               "committed", 302, "redirect",
                                               "show_venue", venue_id,
                                               Flash("success", "Venue", venue.name,
                                                     "updated"),
                                               FALSE, NoData)
                           /\ UNCHANGED <<artists, shows, nextVenueId, nextArtistId,
                                          nextShowId>>
             ELSE /\ resp' = Response("edit_venue", method, venue_id, form, "form",
                                      200, "render", "forms/edit_venue.html",
                                      venue_id, NoFlash, FALSE, NoData)
                  /\ UNCHANGED db

DeleteVenueFailedNoContent(venue_id, name) ==
    Response("delete_venue", "DELETE", venue_id, EmptyEntityForm, "commit_failed",
             204, "empty", "", NoId, NoFlash, TRUE, NoData)

\* The except and finally branches of delete_venue.
DeleteVenueFailed(venue_id, name) ==
    Response("delete_venue", "DELETE", venue_id, EmptyEntityForm, "commit_failed",
             500, "empty", "", NoId, Flash("failure", "Venue", name, "deleted"),
             TRUE, NoData)

\* DELETE /venues/<id>.
delete_venue(venue_id, dbError) ==
    IF venue_id \notin DOMAIN venues
    THEN /\ resp' = NotFound("delete_venue", "DELETE", venue_id)
         /\ UNCHANGED db
    ELSE IF CommitRaises(dbError, NotReferenced("venue_id", venue_id, shows))
         THEN /\ resp' = DeleteVenueFailed(venue_id, venues[venue_id].name)
              /\ UNCHANGED db
         ELSE /\ venues' = DeleteRow(venues, venue_id)
              /\ resp' = Response("delete_venue", "DELETE", venue_id,
                                  EmptyEntityForm, "committed", 204, "empty", "",
                                  NoId, NoFlash, TRUE, NoData)
              /\ UNCHANGED <<artists, shows, nextVenueId, nextArtistId, nextShowId>>

(***************************************************************************)
(* Artists.                                                                *)
(***************************************************************************)
\* GET /artists: the id and name of every artist.
artists_list ==
    /\ resp' = Response("artists", "GET", NoId, EmptyEntityForm, "read", 200,
                        "render", "pages/artists.html", NoId, NoFlash, FALSE,
                        [NoData EXCEPT !.rows = DOMAIN artists,
                                       !.count = Cardinality(DOMAIN artists)])
    /\ UNCHANGED db

\* The shows the artist page's two queries select: Show joined with Venue
\* and Artist, filtered on Show.venue_id == artist_id and on start_time.
ArtistPastShows(artist_id, now) ==
    {s \in DOMAIN shows :
        /\ shows[s].venue_id \in DOMAIN venues
        /\ shows[s].artist_id \in DOMAIN artists
        /\ shows[s].venue_id = artist_id
        /\ shows[s].start_time < now}

ArtistUpcomingShows(artist_id, now) ==
    {s \in DOMAIN shows :
        /\ shows[s].venue_id \in DOMAIN venues
        /\ shows[s].artist_id \in DOMAIN artists
        /\ shows[s].venue_id = artist_id
        /\ shows[s].start_time >= now}

\* GET /artists/<id>.
show_artist(artist_id, now1, now2) ==
    /\ now1 <= now2
    /\ UNCHANGED db
    /\ IF artist_id \notin DOMAIN artists
       THEN resp' = NotFound("show_artist", "GET", artist_id)
       ELSE LET past == ArtistPastShows(artist_id, now1)
                upcoming == ArtistUpcomingShows(artist_id, now2)
            IN  resp' = Response("show_artist", "GET", artist_id, EmptyEntityForm,
                                 "read", 200, "render", "pages/show_artist.html",
                                 artist_id, NoFlash, FALSE,
                                 [NoData EXCEPT !.past = past,
                                                !.past_count = Cardinality(past),
                                                !.upcoming = upcoming,
                                                !.upcoming_count = Cardinality(upcoming),
                                                !.now = now1,
                                                !.now2 = now2])

\* The except branch of create_artist.
CreateArtistFailed(method, form) ==
    Response("create_artist", method, NoId, form, "commit_failed", 200, "render",
             "forms/new_artist.html", NoId,
             Flash("failure", "Artist", form.name, "listed"), TRUE, NoData)

\* GET/POST /artists/create.
create_artist(method, form, dbError) ==
    /\ RowsCreated < MaxRows
    /\ IF validate_on_submit(method, ValidateEntity(form))
       THEN LET artist == populate_obj(form)
            IN  IF CommitRaises(dbError, TRUE)
                THEN /\ resp' = CreateArtistFailed(method, form)
                     /\ UNCHANGED db
                ELSE /\ artists' = InsertRow(artists, nextArtistId, artist)
                     /\ nextArtistId' = nextArtistId + 1
                     /\ resp' = Response("create_artist", method, NoId, form,
                                         "committed", 302, "redirect", "show_artist",
                                         nextArtistId,
                                         Flash("success", "Artist", artist.name,
                                               "listed"),
                                         FALSE, NoData)
                     /\ UNCHANGED <<venues, shows, nextVenueId, nextShowId>>
       ELSE /\ resp' = Response("create_artist", method, NoId, form, "form", 200,
                                "render", "forms/new_artist.html", NoId, NoFlash,
                                FALSE, NoData)
            /\ UNCHANGED db

\* The except branch of edit_artist.
EditArtistFailed(method, artist_id, form, artist_name) ==
    Response("edit_artist", method, artist_id, form, "commit_failed", 200, "render",
             "forms/edit_artist.html", artist_id,
             Flash("failure", "Artist", artist_name, "edited"), TRUE, NoData)

\* GET/POST /artists/<id>/edit.  The success path redirects without a flash.
edit_artist(artist_id, method, form, dbError) ==
    IF artist_id \notin DOMAIN artists
    THEN /\ resp' = NotFound("edit_artist", method, artist_id)
         /\ UNCHANGED db
    ELSE LET artist_name == artists[artist_id].name
         IN  IF validate_on_submit(method, ValidateEntity(form))
             THEN LET artist == populate_obj(form)
                  IN  IF CommitRaises(dbError, TRUE)
                      THEN /\ resp' = EditArtistFailed(method, artist_id, form,
                                                       artist_name)
                           /\ UNCHANGED db
                      ELSE /\ artists' = UpdateRow(artists, artist_id, artist)
                           /\ resp' = Response("edit_artist", method, artist_id, form,
                                               "committed", 302, "redirect",
                                               "show_artist", artist_id, NoFlash,
                                               FALSE, NoData)
                           /\ UNCHANGED <<venues, shows, nextVenueId, nextArtistId,
                                          nextShowId>>
             ELSE /\ resp' = Response("edit_artist", method, artist_id, form, "form",
                                      200, "render", "forms/edit_artist.html",
                                      artist_id, NoFlash, FALSE, NoData)
                  /\ UNCHANGED db

\* The except branch of delete_artist.
DeleteArtistFailed(artist_id, name) ==
    Response("delete_artist", "DELETE", artist_id, EmptyEntityForm, "commit_failed",
             500, "empty", "", NoId, Flash("failure", "Artist", name, "deleted"),
             TRUE, NoData)

\* DELETE /artists/<id>.  The success path does not close the session.
delete_artist(artist_id, dbError) ==
    IF artist_id \notin DOMAIN artists
    THEN /\ resp' = NotFound("delete_artist", "DELETE", artist_id)
         /\ UNCHANGED db
    ELSE IF CommitRaises(dbError, NotReferenced("artist_id", artist_id, shows))
         THEN /\ resp' = DeleteArtistFailed(artist_id, artists[artist_id].name)
              /\ UNCHANGED db
         ELSE /\ artists' = DeleteRow(artists, artist_id)
              /\ resp' = Response("delete_artist", "DELETE", artist_id,
                                  EmptyEntityForm, "committed", 204, "empty", "",
                                  NoId, NoFlash, FALSE, NoData)
              /\ UNCHANGED <<venues, shows, nextVenueId, nextArtistId, nextShowId>>

(***************************************************************************)
(* Shows.                                                                  *)
(***************************************************************************)
\* Show joined with Artist and Venue: the shows whose two rows exist.
JoinedShows ==
    {s \in DOMAIN shows :
        shows[s].artist_id \in DOMAIN artists /\ shows[s].venue_id \in DOMAIN venues}

\* GET /shows.
shows_list ==
    /\ resp' = Response("shows", "GET", NoId, EmptyEntityForm, "read", 200,
                        "render", "pages/shows.html", NoId, NoFlash, FALSE,
                        [NoData EXCEPT !.rows = JoinedShows,
                                       !.count = Cardinality(JoinedShows)])
    /\ UNCHANGED db

\* The except branch of create_show.
CreateShowFailed(method, form) ==
    Response("create_show", method, NoId, form, "commit_failed", 200, "render",
             "forms/new_show.html", NoId,
             Flash("failure", "Show", NoName, "listed"), TRUE, NoData)

\* GET/POST /shows/create.  The success path renders the home page.
create_show(method, form, dbError) ==
    /\ RowsCreated < MaxRows
    /\ IF validate_on_submit(method, ValidateShow(form))
       THEN LET show == populate_show(form)
            IN  IF CommitRaises(dbError, ForeignKeysOk(show, venues, artists))
                THEN /\ resp' = CreateShowFailed(method, form)
                     /\ UNCHANGED db
                ELSE /\ shows' = InsertRow(shows, nextShowId, show)
                     /\ nextShowId' = nextShowId + 1
                     /\ resp' = Response("create_show", method, NoId, form,
                                         "committed", 200, "render",
                                         "pages/home.html", NoId,
                                         Flash("success", "Show", NoName, "listed"),
                                         FALSE, NoData)
                     /\ UNCHANGED <<venues, artists, nextVenueId, nextArtistId>>
       ELSE /\ resp' = Response("create_show", method, NoId, form, "form", 200,
                                "render", "forms/new_show.html", NoId, NoFlash,
                                FALSE, NoData)
            /\ UNCHANGED db

(***************************************************************************)
(* Search.                                                                 *)
(***************************************************************************)
Lower(c) == IF c = "A" THEN "a" ELSE c

LowerSeq(s) == [i \in 1..Len(s) |-> Lower(s[i])]

\* SQL LIKE: % matches any run of characters, _ any one character, and
\* every other character matches itself.
RECURSIVE Like(_, _)
Like(pattern, s) ==
    IF pattern = <<>> THEN s = <<>>
    ELSE IF Head(pattern) = "%"
         THEN Like(Tail(pattern), s) \/ (s # <<>> /\ Like(pattern, Tail(s)))
         ELSE /\ s # <<>>
              /\ (Head(pattern) = "_" \/ Head(pattern) = Head(s))
              /\ Like(Tail(pattern), Tail(s))

\* column.ilike(pattern): LIKE on the lower-cased pattern and value.
ILike(s, pattern) == Like(LowerSeq(pattern), LowerSeq(s))

\* f'%{q}%'
SearchPattern(q) == <<"%">> \o q \o <<"%">>

\* POST /venues/search.
search_venues(q) ==
    LET found == {v \in DOMAIN venues : ILike(venues[v].name, SearchPattern(q))}
    IN  /\ resp' = Response("search_venues", "POST", NoId,
                            [EmptyEntityForm EXCEPT !.name = q], "read", 200,
                            "render", "pages/search_venues.html", NoId, NoFlash,
                            FALSE,
                            [NoData EXCEPT !.rows = found,
                                           !.count = Cardinality(found)])
        /\ UNCHANGED db

\* POST /artists/search.
search_artists(q) ==
    LET found == {a \in DOMAIN artists : ILike(artists[a].name, SearchPattern(q))}
    IN  /\ resp' = Response("search_artists", "POST", NoId,
                            [EmptyEntityForm EXCEPT !.name = q], "read", 200,
                            "render", "pages/search_artists.html", NoId, NoFlash,
                            FALSE,
                            [NoData EXCEPT !.rows = found,
                                           !.count = Cardinality(found)])
        /\ UNCHANGED db

\* POST /shows/search: Show joined with Artist and Venue, either name matching.
search_shows(search_term) ==
    LET q == SearchPattern(search_term)
        found == {s \in JoinedShows :
                     \/ ILike(venues[shows[s].venue_id].name, q)
                     \/ ILike(artists[shows[s].artist_id].name, q)}
    IN  /\ resp' = Response("search_shows", "POST", NoId,
                            [EmptyEntityForm EXCEPT !.name = search_term], "read",
                            200, "render", "pages/search_shows.html", NoId, NoFlash,
                            FALSE,
                            [NoData EXCEPT !.rows = found,
                                           !.count = Cardinality(found)])
        /\ UNCHANGED db

(***************************************************************************)
(* The application: any request, one at a time.                            *)
(***************************************************************************)
\* The search terms tried between the writes.
SpecTerms == {<<>>, <<"a">>}

Next ==
    \/ venues_list
    \/ \E id \in VenueIds, now1 \in Nows, now2 \in Nows : show_venue(id, now1, now2)
    \/ \E method \in Methods, form \in EntityForms \cup {EmptyEntityForm},
          dbError \in BOOLEAN :
          /\ (method = "GET") = (form = EmptyEntityForm)
          /\ create_venue(method, form, dbError)
    \/ \E id \in VenueIds, method \in Methods,
          form \in EntityForms \cup {EmptyEntityForm}, dbError \in BOOLEAN :
          /\ (method = "GET") = (form = EmptyEntityForm)
          /\ edit_venue(id, method, form, dbError)
    \/ \E id \in VenueIds, dbError \in BOOLEAN : delete_venue(id, dbError)
    \/ artists_list
    \/ \E id \in ArtistIds, now1 \in Nows, now2 \in Nows : show_artist(id, now1, now2)
    \/ \E method \in Methods, form \in EntityForms \cup {EmptyEntityForm},
          dbError \in BOOLEAN :
          /\ (method = "GET") = (form = EmptyEntityForm)
          /\ create_artist(method, form, dbError)
    \/ \E id \in ArtistIds, method \in Methods,
          form \in EntityForms \cup {EmptyEntityForm}, dbError \in BOOLEAN :
          /\ (method = "GET") = (form = EmptyEntityForm)
          /\ edit_artist(id, method, form, dbError)
    \/ \E id \in ArtistIds, dbError \in BOOLEAN : delete_artist(id, dbError)
    \/ shows_list
    \/ \E method \in Methods, form \in ShowForms \cup {EmptyShowForm},
          dbError \in BOOLEAN :
          /\ (method = "GET") = (form = EmptyShowForm)
          /\ create_show(method, form, dbError)
    \/ \E q \in SpecTerms : search_venues(q)
    \/ \E q \in SpecTerms : search_artists(q)
    \/ \E q \in SpecTerms : search_shows(q)

Spec == Init /\ [][Next]_vars

(***************************************************************************)
(* The search routes alone, over every small database and every term.      *)
(***************************************************************************)
Terms == UNION {[1..n -> Alphabet] : n \in 0..MaxTermLen}

SearchNames == {<<"A", "b">>, <<"b">>, <<"a", "_">>}

SearchRows == [name : SearchNames, city : {"SF"}]

SearchInit ==
    /\ venues \in UNION {[1..n -> SearchRows] : n \in 0..MaxSearchRows}
    /\ artists \in UNION {[1..n -> SearchRows] : n \in 0..MaxSearchRows}
    /\ shows \in UNION {[1..n -> [venue_id : DOMAIN venues,
                                  artist_id : DOMAIN artists,
                                  start_time : {1}]] : n \in 0..MaxSearchRows}
    /\ nextVenueId = Len(venues) + 1
    /\ nextArtistId = Len(artists) + 1
    /\ nextShowId = Len(shows) + 1
    /\ resp = NoResponse

SearchNext ==
    \/ \E q \in Terms : search_venues(q)
    \/ \E q \in Terms : search_artists(q)
    \/ \E q \in Terms : search_shows(q)

SearchSpec == SearchInit /\ [][SearchNext]_vars

(***************************************************************************)
(* Vocabulary of the properties.                                           *)
(***************************************************************************)
CreateHandlers == {"create_venue", "create_artist", "create_show"}
EditHandlers == {"edit_venue", "edit_artist"}
DeleteHandlers == {"delete_venue", "delete_artist"}

EntityOf(handler) ==
    IF handler \in {"create_venue", "edit_venue", "delete_venue"} THEN "Venue"
    ELSE IF handler \in {"create_artist", "edit_artist", "delete_artist"}
         THEN "Artist" ELSE "Show"

FormTemplate(handler) ==
    CASE handler = "create_venue" -> "forms/new_venue.html"
      [] handler = "create_artist" -> "forms/new_artist.html"
      [] handler = "create_show" -> "forms/new_show.html"
      [] handler = "edit_venue" -> "forms/edit_venue.html"
      [] handler = "edit_artist" -> "forms/edit_artist.html"
      [] OTHER -> ""

\* The submitted form of the request fails validation.
FormInvalid(r) ==
    IF r.handler = "create_show" THEN ~ValidateShow(r.form)
    ELSE ~ValidateEntity(r.form)

\* The row stored under id carries every field of the submitted form.
CarriesForm(row, form) == row.name = form.name /\ row.city = form.city

CarriesShowForm(row, form) ==
    /\ row.venue_id = form.venue_id
    /\ row.artist_id = form.artist_id
    /\ row.start_time = form.start_time

\* The response redirects to the detail page of row id.
RedirectsToDetail(r, endpoint, id) ==
    r.status = 302 /\ r.kind = "redirect" /\ r.target = endpoint /\ r.targetId = id

\* A committed create of a venue or an artist stores a new row with the
\* submitted fields and redirects to its detail page.
EntityCreateStep ==
    /\ resp'.handler = "create_venue" /\ resp'.path = "committed" =>
          \E id \in DOMAIN venues' \ DOMAIN venues :
              /\ CarriesForm(venues'[id], resp'.form)
              /\ RedirectsToDetail(resp', "show_venue", id)
    /\ resp'.handler = "create_artist" /\ resp'.path = "committed" =>
          \E id \in DOMAIN artists' \ DOMAIN artists :
              /\ CarriesForm(artists'[id], resp'.form)
              /\ RedirectsToDetail(resp', "show_artist", id)

(***************************************************************************)
(* C1.                                                                     *)
(***************************************************************************)
\* C1 as stated: every committed create (venue, artist or show) stores a new
\* row carrying the submitted fields and redirects to that row's detail page.
C1_CreateRedirectsToDetail ==
    [][/\ EntityCreateStep
       /\ resp'.handler = "create_show" /\ resp'.path = "committed" =>
             \E id \in DOMAIN shows' \ DOMAIN shows :
                 /\ CarriesShowForm(shows'[id], resp'.form)
                 /\ resp'.status = 302 /\ resp'.kind = "redirect"
                 /\ resp'.targetId = id]_vars

\* C1 amended: every committed create stores a new row carrying the submitted
\* fields; a venue or artist create redirects to the new row's detail page,
\* and a show create renders the home page with status 200.
C1_CreateStoresRow ==
    [][/\ EntityCreateStep
       /\ resp'.handler = "create_show" /\ resp'.path = "committed" =>
             /\ \E id \in DOMAIN shows' \ DOMAIN shows :
                    CarriesShowForm(shows'[id], resp'.form)
             /\ resp'.status = 200 /\ resp'.kind = "render"
             /\ resp'.target = "pages/home.html"]_vars

\* A show has just been created next to an earlier committed venue.
C1_Witness ==
    /\ resp.handler = "create_show" /\ resp.path = "committed"
    /\ DOMAIN shows # {} /\ DOMAIN venues # {}

(***************************************************************************)
(* C2.                                                                     *)
(***************************************************************************)
ShowsOfViewed(r) ==
    {s \in DOMAIN shows :
        IF r.handler = "show_venue" THEN shows[s].venue_id = r.id
        ELSE shows[s].artist_id = r.id}

\* C2: on a venue or artist page rendered at one instant now (both clock
\* readings agree), past_shows is exactly the entity's shows with
\* start_time < now and upcoming_shows exactly those with start_time >= now:
\* each of its shows is in exactly one list and no other show is in either.
C2_DetailPartitionsShows ==
    resp.handler \in {"show_venue", "show_artist"} /\ resp.status = 200
        /\ resp.data.now = resp.data.now2 =>
        /\ resp.data.past =
              {s \in ShowsOfViewed(resp) : shows[s].start_time < resp.data.now}
        /\ resp.data.upcoming =
              {s \in ShowsOfViewed(resp) : shows[s].start_time >= resp.data.now}
        /\ resp.data.past \cap resp.data.upcoming = {}
        /\ resp.data.past \cup resp.data.upcoming = ShowsOfViewed(resp)

(***************************************************************************)
(* C3.                                                                     *)
(***************************************************************************)
\* C3: a create or edit POST whose form fails validation stores nothing and
\* changes no row, and the response re-renders the same form.
C3_InvalidSubmissionChangesNothing ==
    [][resp'.handler \in CreateHandlers \cup EditHandlers
          /\ resp'.method = "POST" /\ resp'.status # 404 /\ FormInvalid(resp') =>
          /\ UNCHANGED db
          /\ resp'.status = 200 /\ resp'.kind = "render"
          /\ resp'.target = FormTemplate(resp'.handler)]_vars

\* An edit of a stored venue was posted without its required name.
C3_Witness ==
    /\ resp.handler = "edit_venue" /\ resp.method = "POST"
    /\ resp.id \in DOMAIN venues /\ resp.form.name = NoName
    /\ resp.path = "form"

(***************************************************************************)
(* C4.                                                                     *)
(***************************************************************************)
\* The name the failure message carries: the submitted name on create, the
\* stored name on edit and delete, none for a show.
FailureName(r) ==
    CASE r.handler \in {"create_venue", "create_artist"} -> r.form.name
      [] r.handler \in {"edit_venue", "delete_venue"} -> venues[r.id].name
      [] r.handler \in {"edit_artist", "delete_artist"} -> artists[r.id].name
      [] OTHER -> NoName

\* C4: when the commit raises, the stored rows are those before the request,
\* a failure flash names the entity, and the handler answers itself: the form
\* again for create and edit, an empty body with status 500 for delete.
C4_CommitErrorRolledBack ==
    [][resp'.path = "commit_failed" =>
          /\ UNCHANGED db
          /\ resp'.flash.level = "failure"
          /\ resp'.flash.entity = EntityOf(resp'.handler)
          /\ resp'.flash.name = FailureName(resp')
          /\ resp'.handler \in DeleteHandlers =>
                resp'.kind = "empty" /\ resp'.status = 500
          /\ resp'.handler \notin DeleteHandlers =>
                /\ resp'.kind = "render" /\ resp'.status = 200
                /\ resp'.target = FormTemplate(resp'.handler)]_vars

\* The delete of a stored venue failed at commit.
C4_Witness ==
    /\ resp.handler = "delete_venue" /\ resp.path = "commit_failed"
    /\ resp.id \in DOMAIN venues

(***************************************************************************)
(* C5.                                                                     *)
(***************************************************************************)
\* The venue / artist ids given out and no longer stored: the deleted rows.
DeletedVenues == {id \in 1..(nextVenueId - 1) : id \notin DOMAIN venues}
DeletedArtists == {id \in 1..(nextArtistId - 1) : id \notin DOMAIN artists}

\* C5: a delete of an id with no row answers 404 and changes nothing; a
\* committed delete answers 204 and removes the row; a deleted id is never
\* stored again, its detail page answers 404, and no list or search result
\* holds an id that is not stored.
C5_DeletedStaysDeleted ==
    [][/\ resp'.handler = "delete_venue" /\ resp'.id \notin DOMAIN venues =>
             resp'.status = 404 /\ UNCHANGED db
       /\ resp'.handler = "delete_artist" /\ resp'.id \notin DOMAIN artists =>
             resp'.status = 404 /\ UNCHANGED db
       /\ resp'.handler = "delete_venue" /\ resp'.path = "committed" =>
             /\ resp'.status = 204 /\ resp'.kind = "empty"
             /\ resp'.id \in DOMAIN venues /\ resp'.id \in DeletedVenues'
       /\ resp'.handler = "delete_artist" /\ resp'.path = "committed" =>
             /\ resp'.status = 204 /\ resp'.kind = "empty"
             /\ resp'.id \in DOMAIN artists /\ resp'.id \in DeletedArtists'
       /\ DeletedVenues \subseteq DeletedVenues'
       /\ DeletedArtists \subseteq DeletedArtists'
       /\ resp'.handler = "show_venue" /\ resp'.id \in DeletedVenues' =>
             resp'.status = 404
       /\ resp'.handler = "show_artist" /\ resp'.id \in DeletedArtists' =>
             resp'.status = 404
       /\ resp'.handler \in {"venues", "search_venues"} =>
             resp'.data.rows \cap DeletedVenues' = {}
       /\ resp'.handler \in {"artists", "search_artists"} =>
             resp'.data.rows \cap DeletedArtists' = {}]_vars

\* The detail page of a deleted venue was requested while another venue is
\* stored.
C5_Witness ==
    /\ resp.handler = "show_venue" /\ resp.id \in DeletedVenues
    /\ DOMAIN venues # {}

(***************************************************************************)
(* C6.                                                                     *)
(***************************************************************************)
\* C6: every stored show references a stored venue and a stored artist.
C6_ShowsReferenceStoredRows ==
    \A s \in DOMAIN shows :
        shows[s].venue_id \in DOMAIN venues /\ shows[s].artist_id \in DOMAIN artists

\* The delete of a venue that still has a show was refused.
C6_Witness ==
    /\ resp.handler = "delete_venue" /\ resp.path = "commit_failed"
    /\ \E s \in DOMAIN shows : shows[s].venue_id = resp.id

(***************************************************************************)
(* C7.                                                                     *)
(***************************************************************************)
\* C7: every create, edit or delete request that reached its commit, whether
\* the commit succeeded or raised, closed the session before it returned.
C7_MutatingExitsCloseSession ==
    resp.path \in {"committed", "commit_failed"} => resp.closed

(***************************************************************************)
(* C8 (specification SearchSpec).                                          *)
(***************************************************************************)
\* q occurs in s as a contiguous run of characters.
Contains(s, q) ==
    \E i \in 0..(Len(s) - Len(q)) : SubSeq(s, i + 1, i + Len(q)) = q

ContainsIgnoringCase(s, q) == Contains(LowerSeq(s), LowerSeq(q))

\* C8: a search returns exactly the rows whose name (for a show: whose venue
\* name or artist name) contains the term ignoring case, and the count is
\* the number of rows returned.
C8_SearchIsSubstringMatch ==
    LET q == resp.form.name
    IN  /\ resp.handler = "search_venues" =>
              resp.data.rows =
                  {v \in DOMAIN venues : ContainsIgnoringCase(venues[v].name, q)}
        /\ resp.handler = "search_artists" =>
              resp.data.rows =
                  {a \in DOMAIN artists : ContainsIgnoringCase(artists[a].name, q)}
        /\ resp.handler = "search_shows" =>
              resp.data.rows =
                  {s \in DOMAIN shows :
                      \/ ContainsIgnoringCase(venues[shows[s].venue_id].name, q)
                      \/ ContainsIgnoringCase(artists[shows[s].artist_id].name, q)}
        /\ resp.handler \in {"search_venues", "search_artists", "search_shows"} =>
              resp.data.count = Cardinality(resp.data.rows)

(***************************************************************************)
(* C9.                                                                     *)
(***************************************************************************)
\* C9: every committed create or edit flashes a success message and
\* redirects: to the detail page of the venue or artist, to the home page
\* for a show.
C9_SuccessFlashesAndRedirects ==
    resp.handler \in CreateHandlers \cup EditHandlers /\ resp.path = "committed" =>
        /\ resp.flash.level = "success"
        /\ resp.status = 302 /\ resp.kind = "redirect"
        /\ resp.handler \in {"create_venue", "edit_venue"} =>
              resp.target = "show_venue" /\ resp.targetId \in DOMAIN venues
        /\ resp.handler \in {"create_artist", "edit_artist"} =>
              resp.target = "show_artist" /\ resp.targetId \in DOMAIN artists
        /\ resp.handler = "create_show" => resp.target = "index"

(***************************************************************************)
(* C10.                                                                    *)
(***************************************************************************)
\* C10: a committed edit of row X overwrites X with the submitted fields,
\* keeps the ids, and leaves every other row of every table as it was; an
\* edit of an id with no row answers 404 and changes nothing.
C10_EditOverwritesOnlyItsRow ==
    [][/\ resp'.handler = "edit_venue" /\ resp'.path = "committed" =>
             /\ DOMAIN venues' = DOMAIN venues /\ resp'.id \in DOMAIN venues
             /\ CarriesForm(venues'[resp'.id], resp'.form)
             /\ \A v \in DOMAIN venues \ {resp'.id} : venues'[v] = venues[v]
             /\ UNCHANGED <<artists, shows, nextVenueId, nextArtistId, nextShowId>>
       /\ resp'.handler = "edit_artist" /\ resp'.path = "committed" =>
             /\ DOMAIN artists' = DOMAIN artists /\ resp'.id \in DOMAIN artists
             /\ CarriesForm(artists'[resp'.id], resp'.form)
             /\ \A a \in DOMAIN artists \ {resp'.id} : artists'[a] = artists[a]
             /\ UNCHANGED <<venues, shows, nextVenueId, nextArtistId, nextShowId>>
       /\ resp'.handler = "edit_venue" /\ resp'.id \notin DOMAIN venues =>
             resp'.status = 404 /\ UNCHANGED db
       /\ resp'.handler = "edit_artist" /\ resp'.id \notin DOMAIN artists =>
             resp'.status = 404 /\ UNCHANGED db]_vars

\* A venue was edited while another venue with different fields is stored.
C10_Witness ==
    /\ resp.handler = "edit_venue" /\ resp.path = "committed"
    /\ \E v \in DOMAIN venues : v # resp.id /\ venues[v] # venues[resp.id]

=============================================================================
